---- MODULE Spec2Model ----
(***************************************************************************)
(* A model of dmaudit's tree-building engine (src/dmaudit/utils.py):       *)
(* build_tree over a directory tree, DirectoryTreeSummary, its dictionary  *)
(* serialisation, and the merge / parallel dispatch the specification      *)
(* describes.                                                              *)
(***************************************************************************)
EXTENDS Integers, Sequences, FiniteSets, TLC

(***************************************************************************)
(* Bounds of the model.                                                    *)
(***************************************************************************)
MaxDirs == 2        \* directories created below the audit root
MaxFiles == 2       \* non-directory entries created in the whole tree
MaxLevel == 2       \* target_level ranges over 0..MaxLevel
MaxFaults == 1      \* failures injected into one audit
MaxDamage == 1      \* keys damaged in one persisted snapshot
WorkerCount == 2    \* workers of the pool

(***************************************************************************)
(* The filesystem, as os.scandir, DirEntry.is_dir and DirEntry.stat show   *)
(* it.  An entry is a record                                               *)
(*   name  its file name                                                   *)
(*   kind  "dir", "file" (regular file) or "symlink"                       *)
(*   size, mtime   what stat(follow_symlinks=False) returns                *)
(*   mime  what magic.from_file returns                                    *)
(*   err   the failure the entry meets: "none", "is_dir" (is_dir raises    *)
(*         OSError), "stat" (stat raises OSError), "magic" (magic.from_file*)
(*         raises OSError), and for a directory the exception os.scandir   *)
(*         raises on it: "FileNotFoundError", "PermissionError" or         *)
(*         "OSError" (any other OSError, e.g. NotADirectoryError, EMFILE)  *)
(*   sub   the entries of a directory, in enumeration order                *)
(***************************************************************************)
\* The non-directory entries the environment creates, one of each class the
\* code tells apart: a text file, a gzip file, a regular file of another
\* type last modified before the epoch, and a symbolic link (whose stat is
\* the link's own, follow_symlinks=False).  The sizes are distinct powers of
\* two, so that a sum names its terms.
FileKinds ==
    {[kind |-> "file", size |-> 1, mtime |-> 1, mime |-> "text/plain"],
     [kind |-> "file", size |-> 2, mtime |-> 2, mime |-> "application/x-gzip"],
     [kind |-> "file", size |-> 4, mtime |-> 0 - 1,
      mime |-> "application/octet-stream"],
     [kind |-> "symlink", size |-> 8, mtime |-> 3, mime |-> "inode/symlink"]}
NameOf == <<"a", "b", "c", "d", "e", "f", "g", "h">>

ScandirErrors == {"FileNotFoundError", "PermissionError", "OSError"}
DirFaults == {"is_dir"} \cup ScandirErrors
FileFaults == {"is_dir", "stat", "magic"}

ROOT == <<"/", "audit">>      \* the audit root, an absolute path
CWD == <<"/", "cwd">>         \* the process's working directory

DirNode(name) ==
    [name |-> name, kind |-> "dir", size |-> 0, mtime |-> 0,
     mime |-> "inode/directory", err |-> "none", sub |-> <<>>]

FileNode(name, k) ==
    [name |-> name, kind |-> k.kind, size |-> k.size, mtime |-> k.mtime,
     mime |-> k.mime, err |-> "none", sub |-> <<>>]

\* Paths inside the filesystem value: sequences of indexes into sub.
RECURSIVE NodeAt(_, _)
NodeAt(node, ip) ==
    IF ip = <<>> THEN node ELSE NodeAt(node.sub[Head(ip)], Tail(ip))

RECURSIVE AllPaths(_)
AllPaths(node) ==
    {<<>>} \cup UNION {{<<i>> \o p : p \in AllPaths(node.sub[i])} :
                        i \in 1..Len(node.sub)}

DirPaths(node) == {p \in AllPaths(node) : NodeAt(node, p).kind = "dir"}

RECURSIVE AddEntry(_, _, _)
AddEntry(node, ip, e) ==
    IF ip = <<>>
    THEN [node EXCEPT !.sub = Append(@, e)]
    ELSE [node EXCEPT !.sub[Head(ip)] = AddEntry(@, Tail(ip), e)]

RECURSIVE SetErr(_, _, _)
SetErr(node, ip, err) ==
    IF ip = <<>>
    THEN [node EXCEPT !.err = err]
    ELSE [node EXCEPT !.sub[Head(ip)] = SetErr(@, Tail(ip), err)]

RECURSIVE CountKind(_, _)
CountKind(node, dirs) ==
    LET own == IF (node.kind = "dir") = dirs THEN 1 ELSE 0
        RECURSIVE Below(_)
        Below(i) == IF i = 0 THEN 0
                    ELSE CountKind(node.sub[i], dirs) + Below(i - 1)
    IN own + Below(Len(node.sub))

RECURSIVE CountFaults(_)
CountFaults(node) ==
    LET own == IF node.err = "none" THEN 0 ELSE 1
        RECURSIVE Below(_)
        Below(i) == IF i = 0 THEN 0
                    ELSE CountFaults(node.sub[i]) + Below(i - 1)
    IN own + Below(Len(node.sub))

\* The absolute path of the entry at index path ip (os.path.join of the names).
RECURSIVE PathOf(_, _, _)
PathOf(node, ip, path) ==
    IF ip = <<>> THEN path
    ELSE PathOf(node.sub[Head(ip)], Tail(ip),
                path \o <<node.sub[Head(ip)].name>>)

(***************************************************************************)
(* os.path.relpath on POSIX: both paths are made absolute, their common    *)
(* prefix dropped, one ".." per remaining component of start prepended,    *)
(* and the empty result written ".".                                       *)
(***************************************************************************)
normpath(p) == SelectSeq(p, LAMBDA c : c # ".")

abspath(p) ==
    IF p # <<>> /\ Head(p) = "/" THEN normpath(p) ELSE normpath(CWD \o p)

RECURSIVE CommonLen(_, _)
CommonLen(p, q) ==
    IF p = <<>> \/ q = <<>> \/ Head(p) # Head(q) THEN 0
    ELSE 1 + CommonLen(Tail(p), Tail(q))

relpath(path, start) ==
    LET p == abspath(path)
        s == abspath(start)
        i == CommonLen(p, s)
        rel == [k \in 1..(Len(s) - i) |-> ".."] \o SubSeq(p, i + 1, Len(p))
    IN IF rel = <<>> THEN <<".">> ELSE rel

(***************************************************************************)
(* DirectoryTreeSummary.                                                   *)
(***************************************************************************)
DirectoryTreeSummary(path, start_path, level) ==
    [path |-> relpath(path, start_path),
     level |-> level,
     size_in_bytes |-> 0,
     num_files |-> 0,
     last_touched |-> 0,
     subdirectories |-> <<>>,
     size_in_bytes_text |-> 0,
     size_in_bytes_gzip |-> 0]

\* A slip: the timestamp is stored without the comparison.
update_last_touched_overwrite(self, timestamp) ==
    [self EXCEPT !.last_touched = timestamp]

update_last_touched(self, timestamp) ==
    IF timestamp > self.last_touched
    THEN [self EXCEPT !.last_touched = timestamp]
    ELSE self

(***************************************************************************)
(* build_tree.  The result is [raised, directory]: raised says that an     *)
(* exception left the call, directory is the summary the call returns.     *)
(***************************************************************************)
\* A slip: the totals are added inside the "if level < target_level".
fold_subdir_retained_only(directory, subdir, target_level, level) ==
    IF level < target_level
    THEN update_last_touched(
             [directory EXCEPT
                !.subdirectories = Append(@, subdir),
                !.size_in_bytes = @ + subdir.size_in_bytes,
                !.size_in_bytes_text = @ + subdir.size_in_bytes_text,
                !.size_in_bytes_gzip = @ + subdir.size_in_bytes_gzip,
                !.num_files = @ + subdir.num_files],
             subdir.last_touched)
    ELSE directory

\* A slip: "<=" for "<" in the retention test.
fold_subdir_inclusive(directory, subdir, target_level, level) ==
    LET kept == IF level <= target_level
                THEN [directory EXCEPT !.subdirectories = Append(@, subdir)]
                ELSE directory
        summed == [kept EXCEPT
                     !.size_in_bytes = @ + subdir.size_in_bytes,
                     !.size_in_bytes_text = @ + subdir.size_in_bytes_text,
                     !.size_in_bytes_gzip = @ + subdir.size_in_bytes_gzip,
                     !.num_files = @ + subdir.num_files]
    IN update_last_touched(summed, subdir.last_touched)

\* A slip: "=" for "+=" on the file count.
fold_subdir_assign_count(directory, subdir, target_level, level) ==
    LET kept == IF level < target_level
                THEN [directory EXCEPT !.subdirectories = Append(@, subdir)]
                ELSE directory
        summed == [kept EXCEPT
                     !.size_in_bytes = @ + subdir.size_in_bytes,
                     !.size_in_bytes_text = @ + subdir.size_in_bytes_text,
                     !.size_in_bytes_gzip = @ + subdir.size_in_bytes_gzip,
                     !.num_files = subdir.num_files]
    IN update_last_touched(summed, subdir.last_touched)

\* The directory branch of the loop body, after the recursive call returned.
fold_subdir(directory, subdir, target_level, level) ==
    LET kept == IF level < target_level
                THEN [directory EXCEPT !.subdirectories = Append(@, subdir)]
                ELSE directory
        summed == [kept EXCEPT
                     !.size_in_bytes = @ + subdir.size_in_bytes,
                     !.size_in_bytes_text = @ + subdir.size_in_bytes_text,
                     !.size_in_bytes_gzip = @ + subdir.size_in_bytes_gzip,
                     !.num_files = @ + subdir.num_files]
    IN update_last_touched(summed, subdir.last_touched)

\* The classification of one file, when check_mimetype is set.
classify(directory, entry) ==
    IF entry.mime \in {"text/plain"}
    THEN [directory EXCEPT !.size_in_bytes_text = @ + entry.size]
    ELSE IF entry.mime = "application/x-gzip"
    THEN [directory EXCEPT !.size_in_bytes_gzip = @ + entry.size]
    ELSE directory

\* A slip: "=" for "+=" on the size.
add_file_assign(directory, entry, check_mimetype) ==
    IF entry.err = "stat" THEN directory
    ELSE LET counted == update_last_touched(
                            [directory EXCEPT
                               !.size_in_bytes = entry.size,
                               !.num_files = @ + 1],
                            entry.mtime)
         IN IF check_mimetype /\ entry.err # "magic"
            THEN classify(counted, entry)
            ELSE counted

\* A slip: the file is counted before stat is tried.
add_file_count_first(directory, entry, check_mimetype) ==
    LET first == [directory EXCEPT !.num_files = @ + 1] IN
    IF entry.err = "stat" THEN first
    ELSE LET counted == update_last_touched(
                            [first EXCEPT !.size_in_bytes = @ + entry.size],
                            entry.mtime)
         IN IF check_mimetype /\ entry.err # "magic"
            THEN classify(counted, entry)
            ELSE counted

\* The non-directory branch of the loop body.
add_file(directory, entry, check_mimetype) ==
    IF entry.err = "stat" THEN directory
    ELSE LET counted == update_last_touched(
                            [directory EXCEPT
                               !.size_in_bytes = @ + entry.size,
                               !.num_files = @ + 1],
                            entry.mtime)
         IN IF check_mimetype /\ entry.err # "magic"
            THEN classify(counted, entry)
            ELSE counted

\* DirEntry.is_dir: a symbolic link is a directory only when it is followed
\* and its target is one.
is_dir(entry, links_to_dir, follow_symlinks) ==
    IF entry.kind = "symlink"
    THEN follow_symlinks /\ links_to_dir
    ELSE entry.kind = "dir"

entry_is_dir_follow(entry, links_to_dir) == is_dir(entry, links_to_dir, TRUE)

\* entry.is_dir(follow_symlinks=False), as the loop calls it.
entry_is_dir(entry, links_to_dir) == is_dir(entry, links_to_dir, FALSE)

RECURSIVE build_tree(_, _, _, _, _, _)
RECURSIVE scan_entries(_, _, _, _, _, _, _)

\* The for loop over os.scandir(path), from the entries still to come.
scan_entries(entries, directory, path, start_path, target_level, level, check_mimetype) ==
    IF entries = <<>> THEN [raised |-> FALSE, directory |-> directory]
    ELSE
      LET entry == Head(entries) IN
      IF entry.err = "is_dir"
      THEN scan_entries(Tail(entries), directory, path, start_path,
                        target_level, level, check_mimetype)
      ELSE IF entry.kind = "dir"
      THEN LET r == build_tree(entry, path \o <<entry.name>>, start_path,
                               target_level, level + 1, check_mimetype)
           IN IF r.raised
              THEN [raised |-> TRUE, directory |-> directory]
              ELSE scan_entries(Tail(entries),
                                fold_subdir(directory, r.directory,
                                            target_level, level),
                                path, start_path, target_level, level,
                                check_mimetype)
      ELSE scan_entries(Tail(entries),
                        add_file(directory, entry, check_mimetype),
                        path, start_path, target_level, level,
                        check_mimetype)

\* node is the directory the filesystem holds at path.
build_tree(node, path, start_path, target_level, level, check_mimetype) ==
    LET directory == DirectoryTreeSummary(path, start_path, level) IN
    IF node.err \in {"FileNotFoundError", "PermissionError"}
    THEN [raised |-> FALSE, directory |-> directory]
    ELSE IF node.err = "OSError"
    THEN [raised |-> TRUE, directory |-> directory]
    ELSE scan_entries(node.sub, directory, path, start_path, target_level,
                      level, check_mimetype)

(***************************************************************************)
(* to_dict / from_dict.  A Python dictionary is a function from its keys;  *)
(* data[key] on a dictionary without the key raises KeyError(key).  The    *)
(* result of from_dict is [error, field, dts]: error is "none" or the      *)
(* exception raised, field the key a KeyError names, dts the summary.      *)
(***************************************************************************)
RECURSIVE to_dict(_)
to_dict(self) ==
    [path |-> self.path,
     level |-> self.level,
     size_in_bytes |-> self.size_in_bytes,
     size_in_bytes_text |-> self.size_in_bytes_text,
     size_in_bytes_gzip |-> self.size_in_bytes_gzip,
     num_files |-> self.num_files,
     last_touched |-> self.last_touched,
     subdirectories |-> [i \in 1..Len(self.subdirectories) |->
                           to_dict(self.subdirectories[i])]]

\* The keys from_dict reads, in the order it reads them.
ReadOrder ==
    <<"path", "level", "size_in_bytes", "size_in_bytes_text",
      "size_in_bytes_gzip", "num_files", "last_touched", "subdirectories">>

KeyError(key) ==
    [error |-> "KeyError", field |-> key,
     dts |-> DirectoryTreeSummary(<<".">>, <<".">>, 0)]

Loaded(dts) == [error |-> "none", field |-> "", dts |-> dts]

\* The first data[key] that raises, as an index into ReadOrder; 0 if none.
first_missing(data) ==
    LET absent == {k \in 1..Len(ReadOrder) : ReadOrder[k] \notin DOMAIN data}
    IN IF absent = {} THEN 0
       ELSE CHOOSE k \in absent : \A j \in absent : k <= j

\* A slip: size_in_bytes_gzip is not read back.
load_fields_forget(data) ==
    [DirectoryTreeSummary(data.path, <<".">>, data.level) EXCEPT
       !.size_in_bytes = data.size_in_bytes,
       !.size_in_bytes_text = data.size_in_bytes_text,
       !.num_files = data.num_files,
       !.last_touched = data.last_touched]

\* dts = cls(data["path"], ".", data["level"]) and the five assignments.
load_fields(data) ==
    [DirectoryTreeSummary(data.path, <<".">>, data.level) EXCEPT
       !.size_in_bytes = data.size_in_bytes,
       !.size_in_bytes_text = data.size_in_bytes_text,
       !.size_in_bytes_gzip = data.size_in_bytes_gzip,
       !.num_files = data.num_files,
       !.last_touched = data.last_touched]

\* A slip: a subdirectory that fails to load is left out.
load_subdirectories_skip(dts, subs) ==
    Loaded([dts EXCEPT
              !.subdirectories =
                 LET ok == SelectSeq(subs, LAMBDA r : r.error = "none")
                 IN [i \in 1..Len(ok) |-> ok[i].dts]])

\* The loop over data["subdirectories"], given what from_dict returns for
\* each element: the first exception leaves the loop and from_dict.
load_subdirectories(dts, subs) ==
    LET bad == {i \in 1..Len(subs) : subs[i].error # "none"}
    IN IF bad # {}
       THEN subs[CHOOSE i \in bad : \A j \in bad : i <= j]
       ELSE Loaded([dts EXCEPT
                      !.subdirectories =
                         [i \in 1..Len(subs) |-> subs[i].dts]])

RECURSIVE from_dict(_)
from_dict(data) ==
    IF first_missing(data) # 0
    THEN KeyError(ReadOrder[first_missing(data)])
    ELSE load_subdirectories(
             load_fields(data),
             [i \in 1..Len(data.subdirectories) |->
                from_dict(data.subdirectories[i])])

\* Persisted data the environment has damaged: the element at index path ip
\* of the nested dictionaries loses a key, or has a count made negative.
CountFields ==
    {"level", "size_in_bytes", "size_in_bytes_text", "size_in_bytes_gzip",
     "num_files"}

RECURSIVE DictPaths(_)
DictPaths(data) ==
    {<<>>} \cup
    (IF "subdirectories" \in DOMAIN data
     THEN UNION {{<<i>> \o p : p \in DictPaths(data.subdirectories[i])} :
                   i \in 1..Len(data.subdirectories)}
     ELSE {})

RECURSIVE DictAt(_, _)
DictAt(data, ip) ==
    IF ip = <<>> THEN data
    ELSE DictAt(data.subdirectories[Head(ip)], Tail(ip))

RECURSIVE Damaged(_, _, _, _)
Damaged(data, ip, kind, key) ==
    IF ip = <<>>
    THEN IF kind = "missing"
         THEN [k \in DOMAIN data \ {key} |-> data[k]]
         ELSE [k \in DOMAIN data |-> IF k = key THEN 0 - 1 ELSE data[k]]
    ELSE [k \in DOMAIN data |->
            IF k = "subdirectories"
            THEN [i \in 1..Len(data.subdirectories) |->
                    IF i = Head(ip)
                    THEN Damaged(data.subdirectories[i], Tail(ip), kind, key)
                    ELSE data.subdirectories[i]]
            ELSE data[k]]

(***************************************************************************)
(* The Merger and the ParallelDispatcher of the specification.             *)
(***************************************************************************)
\* add_subtree(into, from): the totals of from are folded into into, as in
\* build_tree's directory branch, and from is appended to its children.
add_subtree(into, from) == fold_subdir(into, from, into.level + 1, into.level)

\* merge_trees(path, level, t1, ..., tn): a zero-valued node with each tree
\* folded in, in order.
RECURSIVE merge_trees(_, _, _)
merge_trees(path, level, trees) ==
    IF trees = <<>> THEN DirectoryTreeSummary(path, <<".">>, level)
    ELSE add_subtree(merge_trees(path, level, SubSeq(trees, 1, Len(trees) - 1)),
                     trees[Len(trees)])

\* The units of work: the immediate subdirectories of the audit root, as the
\* coordinator enumerates them.
Units(root) ==
    IF root.err \in ScandirErrors THEN <<>>
    ELSE SelectSeq(root.sub, LAMBDA e : e.kind = "dir" /\ e.err # "is_dir")

\* One unit: build(subdirPath, rootPath, cutoffDepth, depth=1, classify); a
\* unit that fails entirely contributes a zero-valued subtree.
unit_build(unit, cutoff, classify_files) ==
    LET r == build_tree(unit, ROOT \o <<unit.name>>, ROOT, cutoff, 1,
                        classify_files)
    IN IF r.raised
       THEN DirectoryTreeSummary(ROOT \o <<unit.name>>, ROOT, 1)
       ELSE r.directory

\* The coordinator's root before any unit is folded in: depth 0, with the
\* root's own top-level files handled as TreeBuilder handles files.
coordinator_root(root, cutoff, classify_files) ==
    IF root.err \in ScandirErrors THEN DirectoryTreeSummary(ROOT, ROOT, 0)
    ELSE scan_entries(SelectSeq(root.sub, LAMBDA e : e.kind # "dir"),
                      DirectoryTreeSummary(ROOT, ROOT, 0), ROOT, ROOT, cutoff,
                      0, classify_files).directory

\* The coordinator folds one completed unit into the root: the Merger, with
\* the child kept under the caller's retention rule.
coordinator_fold(root, subtree, cutoff) ==
    IF root.level < cutoff THEN add_subtree(root, subtree)
    ELSE fold_subdir(root, subtree, cutoff, root.level)

(***************************************************************************)
(* State.                                                                  *)
(***************************************************************************)
VARIABLES
    fs,              \* the directory tree under the audit root
    phase,           \* "setup", "built"
    target_level,    \* the arguments of the audit
    check_mimetype,
    tree,            \* what build_tree(root, root, target_level, 0) gave
    data,            \* the persisted snapshot: json.dump(tree.to_dict(), fh)
    damage,          \* what the environment did to the snapshot
    loaded,          \* what DirectoryTreeSummary.from_file(fh) gave
    par_root,        \* the coordinator's root summary
    status,          \* of each unit: "pending", "running", "done", "folded"
    results,         \* the completed units' summaries, in completion order
    folded,          \* the summaries folded into par_root, in folding order
    into_before,     \* par_root before the last fold
    merged,          \* what merge_trees(".", 0, *folded) gave
    links,           \* the symbolic links to directories: <<link, target>>
    stack,           \* the activations of build_tree, the innermost last
    calls            \* every call of build_tree made so far, in order

vars == <<fs, phase, target_level, check_mimetype, tree, data, damage, loaded, par_root, status, results, folded, into_before, merged, links, stack, calls>>

audit == <<target_level, check_mimetype, tree>>
snapshot == <<data, damage, loaded>>
dispatch == <<par_root, status, results, folded, into_before, merged>>
walk == <<links, stack, calls>>

NoTree == [raised |-> FALSE, directory |-> DirectoryTreeSummary(ROOT, ROOT, 0)]

Init ==
    /\ fs = DirNode(".")
    /\ phase = "setup"
    /\ target_level = 0
    /\ check_mimetype = FALSE
    /\ tree = NoTree
    /\ data = to_dict(NoTree.directory)
    /\ damage = <<>>
    /\ loaded = Loaded(NoTree.directory)
    /\ par_root = NoTree.directory
    /\ status = <<>>
    /\ results = <<>>
    /\ folded = <<>>
    /\ into_before = NoTree.directory
    /\ merged = NoTree.directory
    /\ links = {}
    /\ stack = <<>>
    /\ calls = <<>>

\* The environment: the tree the audit will find.
CreateDir ==
    /\ phase = "setup"
    /\ CountFaults(fs) = 0
    /\ CountKind(fs, TRUE) - 1 < MaxDirs
    /\ \E ip \in DirPaths(fs) :
         fs' = AddEntry(fs, ip,
                        DirNode(NameOf[Len(NodeAt(fs, ip).sub) + 1]))
    /\ UNCHANGED <<walk, phase, audit, snapshot, dispatch>>

CreateFile ==
    /\ phase = "setup"
    /\ CountFaults(fs) = 0
    /\ CountKind(fs, FALSE) < MaxFiles
    /\ \E ip \in DirPaths(fs), k \in FileKinds :
         fs' = AddEntry(fs, ip,
                        FileNode(NameOf[Len(NodeAt(fs, ip).sub) + 1], k))
    /\ UNCHANGED <<walk, phase, audit, snapshot, dispatch>>

\* The environment: an entry that will fail when the audit reaches it.
InjectFault ==
    /\ phase = "setup"
    /\ CountFaults(fs) < MaxFaults
    /\ \E ip \in AllPaths(fs) :
         LET node == NodeAt(fs, ip) IN
         /\ node.err = "none"
         /\ \E err \in IF node.kind = "dir"
                       THEN (IF ip = <<>>
                             THEN {"FileNotFoundError", "PermissionError"}
                             ELSE DirFaults)
                       ELSE FileFaults :
              fs' = SetErr(fs, ip, err)
    /\ UNCHANGED <<walk, phase, audit, snapshot, dispatch>>

\* dmaudit: build_tree(path=directory, start_path=directory, level=0, ...).
Build ==
    /\ phase = "setup"
    /\ \E tl \in 0..MaxLevel, cm \in BOOLEAN :
         /\ target_level' = tl
         /\ check_mimetype' = cm
         /\ tree' = build_tree(fs, ROOT, ROOT, tl, 0, cm)
    /\ phase' = "built"
    /\ UNCHANGED <<walk, fs, snapshot, dispatch>>

\* tree.to_json(fh): json.dump(self.to_dict(), fh).
ToJson ==
    /\ phase = "built"
    /\ ~tree.raised
    /\ data' = to_dict(tree.directory)
    /\ phase' = "persisted"
    /\ UNCHANGED <<walk, fs, audit, damage, loaded, dispatch>>

\* The environment: the snapshot is damaged before it is read back.
Damage ==
    /\ phase = "persisted"
    /\ Len(damage) < MaxDamage
    /\ \E ip \in DictPaths(data), kind \in {"missing", "invalid"} :
         \E i \in 1..Len(ReadOrder) :
           LET key == ReadOrder[i] IN
           /\ key \in DOMAIN DictAt(data, ip)
           /\ kind = "invalid" => key \in CountFields
           /\ data' = Damaged(data, ip, kind, key)
           /\ damage' = Append(damage,
                               [kind |-> kind, field |-> key, at |-> ip])
    /\ UNCHANGED <<walk, fs, phase, audit, loaded, dispatch>>

\* DirectoryTreeSummary.from_file(fh): cls.from_dict(json.load(fh)).
FromFile ==
    /\ phase = "persisted"
    /\ loaded' = from_dict(data)
    /\ phase' = "loaded"
    /\ UNCHANGED <<walk, fs, audit, data, damage, dispatch>>

\* buildParallel: the coordinator lists the root once, handles its files
\* and makes one unit of each immediate subdirectory.
Dispatch ==
    /\ phase = "built"
    /\ par_root' = coordinator_root(fs, target_level, check_mimetype)
    /\ status' = [i \in 1..Len(Units(fs)) |-> "pending"]
    /\ phase' = "parallel"
    /\ UNCHANGED <<walk, fs, audit, snapshot, results, folded, into_before, merged>>

\* A free worker of the pool takes a unit.
WorkerStart ==
    /\ phase = "parallel"
    /\ Cardinality({i \in DOMAIN status : status[i] = "running"}) < WorkerCount
    /\ \E i \in DOMAIN status :
         /\ status[i] = "pending"
         /\ status' = [status EXCEPT ![i] = "running"]
    /\ UNCHANGED <<walk, fs, phase, audit, snapshot, par_root, results, folded, into_before, merged>>

\* A worker completes its unit and hands the summary to the coordinator.
WorkerFinish ==
    /\ phase = "parallel"
    /\ \E i \in DOMAIN status :
         /\ status[i] = "running"
         /\ status' = [status EXCEPT ![i] = "done"]
         /\ results' = Append(results,
                              [unit |-> i,
                               subtree |-> unit_build(Units(fs)[i], target_level,
                                                      check_mimetype)])
    /\ UNCHANGED <<walk, fs, phase, audit, snapshot, par_root, folded, into_before, merged>>

\* The coordinator folds the next completed unit into the root.
Fold ==
    /\ phase = "parallel"
    /\ results # <<>>
    /\ into_before' = par_root
    /\ par_root' = coordinator_fold(par_root, Head(results).subtree, target_level)
    /\ folded' = Append(folded, Head(results).subtree)
    /\ status' = [status EXCEPT ![Head(results).unit] = "folded"]
    /\ results' = Tail(results)
    /\ UNCHANGED <<walk, fs, phase, audit, snapshot, merged>>

\* Every unit is folded in: buildParallel returns par_root.
Collect ==
    /\ phase = "parallel"
    /\ \A i \in DOMAIN status : status[i] = "folded"
    /\ phase' = "collected"
    /\ UNCHANGED <<walk, fs, audit, snapshot, dispatch>>

\* merge_trees(".", 0, *folded) on the units' summaries.
MergeTrees ==
    /\ phase = "collected"
    /\ merged' = merge_trees(<<".">>, 0, folded)
    /\ phase' = "merged"
    /\ UNCHANGED <<walk, fs, audit, snapshot, par_root, status, results, folded, into_before>>

Next ==
    \/ CreateDir \/ CreateFile \/ Build \/ ToJson \/ FromFile
    \/ Dispatch \/ WorkerStart \/ WorkerFinish \/ Fold \/ Collect \/ MergeTrees

Spec == Init /\ [][Next]_vars

NextFaults == CreateDir \/ CreateFile \/ InjectFault \/ Build

SpecFaults == Init /\ [][NextFaults]_vars

NextLoad == CreateDir \/ CreateFile \/ Build \/ ToJson \/ Damage \/ FromFile

SpecLoad == Init /\ [][NextLoad]_vars

(***************************************************************************)
(* build_tree, one step of its loop at a time, on a tree that holds        *)
(* symbolic links to directories.  An activation is a record               *)
(*   dir        the directory os.scandir(path) lists (an index path)       *)
(*   path       the path the activation was called with                    *)
(*   level      its level                                                  *)
(*   next       the index of the entry the loop comes to next              *)
(*   directory  its DirectoryTreeSummary                                   *)
(*   counted    the entries whose size was added to directory, in order    *)
(***************************************************************************)
\* The Python interpreter's recursion limit, above the depth of every tree
\* of real directories the environment builds.
RecursionLimit == MaxDirs + 2

SymlinkKind == CHOOSE k \in FileKinds : k.kind = "symlink"

LinksToDir(ip) == \E l \in links : l[1] = ip

\* The directory os.scandir lists when given the path of the entry at ip.
Resolve(ip) ==
    IF LinksToDir(ip) THEN (CHOOSE l \in links : l[1] = ip)[2] ELSE ip

Activation(dir, path, level) ==
    [dir |-> dir, path |-> path, level |-> level, next |-> 1,
     directory |-> DirectoryTreeSummary(path, ROOT, level),
     counted |-> <<>>]

\* What os.scandir(path) yields in the activation.
Entries(frame) ==
    IF NodeAt(fs, frame.dir).err \in {"FileNotFoundError", "PermissionError"}
    THEN <<>>
    ELSE NodeAt(fs, frame.dir).sub

Top == stack[Len(stack)]

\* The environment: a symbolic link to a directory of the tree, which may be
\* an ancestor of the link.
CreateLink ==
    /\ phase = "setup"
    /\ CountFaults(fs) = 0
    /\ CountKind(fs, FALSE) < MaxFiles
    /\ \E ip \in DirPaths(fs), target \in DirPaths(fs) :
         LET i == Len(NodeAt(fs, ip).sub) + 1 IN
         /\ fs' = AddEntry(fs, ip, FileNode(NameOf[i], SymlinkKind))
         /\ links' = links \cup {<<ip \o <<i>>, target>>}
    /\ UNCHANGED <<phase, audit, snapshot, dispatch, stack, calls>>

\* dmaudit: build_tree(path=directory, start_path=directory, level=0, ...).
WalkStart ==
    /\ phase = "setup"
    /\ \E tl \in 0..MaxLevel, cm \in BOOLEAN :
         /\ target_level' = tl
         /\ check_mimetype' = cm
    /\ stack' = <<Activation(<<>>, ROOT, 0)>>
    /\ calls' = <<[entry |-> <<>>, dir |-> <<>>]>>
    /\ phase' = "walking"
    /\ UNCHANGED <<fs, tree, snapshot, dispatch, links>>

\* One turn of the for loop in the innermost activation.
WalkEntry ==
    /\ phase = "walking"
    /\ NodeAt(fs, Top.dir).err # "OSError"
    /\ Top.next <= Len(Entries(Top))
    /\ LET n == Len(stack)
           ip == Top.dir \o <<Top.next>>
           entry == NodeAt(fs, ip)
       IN IF entry.err = "is_dir"
          THEN /\ stack' = [stack EXCEPT ![n].next = @ + 1]
               /\ UNCHANGED <<phase, tree, calls>>
          ELSE IF entry_is_dir(entry, LinksToDir(ip))
          THEN IF n >= RecursionLimit
               THEN /\ tree' = [raised |-> TRUE, directory |-> stack[1].directory]
                    /\ phase' = "walked"
                    /\ UNCHANGED <<stack, calls>>
               ELSE /\ stack' = Append(stack,
                                       Activation(Resolve(ip),
                                                  Top.path \o <<entry.name>>,
                                                  Top.level + 1))
                    /\ calls' = Append(calls, [entry |-> ip, dir |-> Resolve(ip)])
                    /\ UNCHANGED <<phase, tree>>
          ELSE /\ stack' = [stack EXCEPT
                              ![n].directory = add_file(@, entry, check_mimetype),
                              ![n].counted = IF entry.err = "stat" THEN @
                                             ELSE Append(@, ip),
                              ![n].next = @ + 1]
               /\ UNCHANGED <<phase, tree, calls>>
    /\ UNCHANGED <<fs, target_level, check_mimetype, snapshot, dispatch, links>>

\* The innermost activation leaves build_tree: its summary is folded into
\* its caller, or is the result of the audit.
WalkReturn ==
    /\ phase = "walking"
    /\ LET n == Len(stack) IN
       IF NodeAt(fs, Top.dir).err = "OSError"
       THEN /\ tree' = [raised |-> TRUE, directory |-> stack[1].directory]
            /\ phase' = "walked"
            /\ UNCHANGED stack
       ELSE /\ Top.next > Len(Entries(Top))
            /\ IF n = 1
               THEN /\ tree' = [raised |-> FALSE, directory |-> Top.directory]
                    /\ phase' = "walked"
                    /\ UNCHANGED stack
               ELSE /\ stack' = [SubSeq(stack, 1, n - 1) EXCEPT
                                   ![n - 1].directory =
                                       fold_subdir(@, Top.directory, target_level,
                                                   stack[n - 1].level),
                                   ![n - 1].counted = @ \o Top.counted,
                                   ![n - 1].next = @ + 1]
                    /\ UNCHANGED <<phase, tree>>
    /\ UNCHANGED <<fs, target_level, check_mimetype, snapshot, dispatch, links, calls>>

Walk == WalkStart \/ WalkEntry \/ WalkReturn

NextWalk ==
    \/ CreateDir \/ CreateFile \/ CreateLink
    \/ WalkStart \/ WalkEntry \/ WalkReturn

\* The process that runs the audit keeps taking its next step.
SpecWalk == Init /\ [][NextWalk]_vars /\ WF_vars(Walk)

(***************************************************************************)
(* What the claims speak of.                                               *)
(***************************************************************************)
Counters(d) ==
    <<d.size_in_bytes, d.size_in_bytes_text, d.size_in_bytes_gzip,
      d.num_files, d.last_touched>>

\* What build_tree produces for the directory at index path ip: the audit's
\* own result at the root, the recursive call's result below it.
NodeResult(ip) ==
    IF ip = <<>> THEN tree
    ELSE build_tree(NodeAt(fs, ip), PathOf(fs, ip, ROOT), ROOT, target_level,
                    Len(ip), check_mimetype)

\* The entries below a directory that are not directories.
FilePaths(node) == {p \in AllPaths(node) : NodeAt(node, p).kind # "dir"}

RECURSIVE SumSizes(_, _)
SumSizes(node, P) ==
    IF P = {} THEN 0
    ELSE LET p == CHOOSE q \in P : TRUE
         IN NodeAt(node, p).size + SumSizes(node, P \ {p})

SetMax(S) == CHOOSE x \in S : \A y \in S : y <= x

Deep == MaxDirs + MaxLevel + 1     \* a target_level below the whole tree

\* C1 (as amended): on a tree without failures, every directory's summary,
\* retained or pruned, has size_in_bytes equal to the sum of the sizes of
\* all the non-directory entries below it and num_files equal to their
\* number; a symbolic link counts as one file of the link's own size.
C1_Aggregates ==
    phase # "setup" =>
      \A ip \in DirPaths(fs) :
        LET node == NodeAt(fs, ip)
            r == NodeResult(ip)
        IN /\ ~r.raised
           /\ r.directory.size_in_bytes = SumSizes(node, FilePaths(node))
           /\ r.directory.num_files = Cardinality(FilePaths(node))

\* C1 as first stated: num_files counts the regular files only.
C1_RegularFilesOnly ==
    phase # "setup" =>
      \A ip \in DirPaths(fs) :
        LET node == NodeAt(fs, ip)
            r == NodeResult(ip)
        IN /\ r.directory.size_in_bytes = SumSizes(node, FilePaths(node))
           /\ r.directory.num_files =
                Cardinality({p \in FilePaths(node) :
                               NodeAt(node, p).kind = "file"})

\* A pruned directory two levels down that holds a file and a link.
C1_Witness ==
    /\ phase # "setup"
    /\ target_level = 0
    /\ \E ip \in DirPaths(fs) :
         /\ Len(ip) = 2
         /\ \E p, q \in FilePaths(NodeAt(fs, ip)) :
              /\ NodeAt(NodeAt(fs, ip), p).kind = "file"
              /\ NodeAt(NodeAt(fs, ip), q).kind = "symlink"
         /\ NodeResult(ip).directory.num_files = 2
         /\ tree.directory.num_files = 2

\* C2: the root's aggregate counters are the same for every target_level,
\* and with target_level 0 the root keeps no subdirectory.
C2_PruningPreservesTotals ==
    phase # "setup" =>
      /\ ~tree.raised
      /\ \A tl \in (0..MaxLevel) \cup {Deep} :
           Counters(build_tree(fs, ROOT, ROOT, tl, 0, check_mimetype).directory)
             = Counters(tree.directory)
      /\ target_level = 0 => tree.directory.subdirectories = <<>>

\* target_level 0 on a tree with a file two directories down.
C2_Witness ==
    /\ phase # "setup"
    /\ target_level = 0
    /\ check_mimetype
    /\ tree.directory.subdirectories = <<>>
    /\ tree.directory.size_in_bytes_text > 0
    /\ FilePaths(fs) # {}
    /\ \A p \in FilePaths(fs) : Len(p) = 3
    /\ build_tree(fs, ROOT, ROOT, Deep, 0, check_mimetype)
          .directory.subdirectories # <<>>

\* The subdirectories build_tree recurses into, in enumeration order.
TraversedDirs(node) ==
    IF node.err \in ScandirErrors THEN <<>>
    ELSE SelectSeq(node.sub, LAMBDA e : e.kind = "dir" /\ e.err # "is_dir")

RECURSIVE Shape(_, _, _)
Shape(d, node, level) ==
    /\ d.level = level
    /\ IF level < target_level
       THEN /\ Len(d.subdirectories) = Len(TraversedDirs(node))
            /\ \A i \in 1..Len(d.subdirectories) :
                 /\ d.subdirectories[i].path[level + 1]
                      = TraversedDirs(node)[i].name
                 /\ Shape(d.subdirectories[i], TraversedDirs(node)[i],
                          level + 1)
       ELSE d.subdirectories = <<>>

\* C6: in the returned tree the root has level 0, a child has its parent's
\* level + 1, a node above target_level keeps one child per subdirectory it
\* traversed (in enumeration order), and a node at target_level keeps none.
C6_RetentionByDepth ==
    (phase # "setup" /\ ~tree.raised) => Shape(tree.directory, fs, 0)

\* A retained level-1 node at the cutoff whose directory has a subdirectory.
C6_Witness ==
    /\ phase # "setup"
    /\ ~tree.raised
    /\ target_level = 1
    /\ Len(tree.directory.subdirectories) = 1
    /\ tree.directory.subdirectories[1].level = 1
    /\ tree.directory.subdirectories[1].subdirectories = <<>>
    /\ \E ip \in DirPaths(fs) : Len(ip) = 2

(***************************************************************************)
(* Failures.                                                               *)
(***************************************************************************)
\* The tree a failure-free audit would see in place of node: an entry whose
\* is_dir or stat fails is gone, a directory whose listing fails is empty,
\* a file that cannot be classified has no known type.
RECURSIVE WithoutFailures(_)
WithoutFailures(node) ==
    LET seen == IF node.err \in ScandirErrors THEN <<>>
                ELSE SelectSeq(node.sub,
                               LAMBDA e : e.err \notin {"is_dir", "stat"})
    IN [node EXCEPT
          !.err = "none",
          !.mime = IF node.err = "magic" THEN "application/octet-stream"
                   ELSE @,
          !.sub = [i \in 1..Len(seen) |-> WithoutFailures(seen[i])]]

\* Some directory build_tree reaches raises an OSError that is neither a
\* FileNotFoundError nor a PermissionError when listed.
RECURSIVE MeetsOtherOSError(_)
MeetsOtherOSError(node) ==
    \/ node.err = "OSError"
    \/ /\ node.err \notin ScandirErrors
       /\ \E i \in 1..Len(node.sub) :
            /\ node.sub[i].kind = "dir"
            /\ node.sub[i].err # "is_dir"
            /\ MeetsOtherOSError(node.sub[i])

FailureIsolation(ip) ==
    LET node == NodeAt(fs, ip)
        r == NodeResult(ip)
    IN /\ r.directory =
            build_tree(WithoutFailures(node), PathOf(fs, ip, ROOT), ROOT,
                       target_level, Len(ip), check_mimetype).directory
       /\ node.err \in ScandirErrors =>
            r.directory = DirectoryTreeSummary(PathOf(fs, ip, ROOT), ROOT,
                                               Len(ip))

\* C7: whatever fails, no exception leaves the build_tree call at the audit
\* root, a directory whose listing fails yields a zero-valued summary, a
\* file whose stat fails adds nothing, and everything else contributes as
\* in a failure-free run.
C7_FailureIsolation ==
    phase # "setup" =>
      /\ ~tree.raised
      /\ \A ip \in DirPaths(fs) : FailureIsolation(ip)

\* What the code does: C7 for every failure but a listing that raises
\* another OSError, which leaves the call at the audit root.
C7_HandledFailures ==
    phase # "setup" =>
      /\ tree.raised = MeetsOtherOSError(fs)
      /\ ~MeetsOtherOSError(fs) => \A ip \in DirPaths(fs) : FailureIsolation(ip)

\* An audit that met a failure and returned.
C7_Witness ==
    /\ phase # "setup"
    /\ ~tree.raised
    /\ tree.directory.num_files > 0
    /\ \E ip \in AllPaths(fs) :
         /\ NodeAt(fs, ip).err \in {"stat", "FileNotFoundError"}
         /\ NodeAt(fs, ip).kind = "dir" => NodeAt(fs, ip).sub # <<>>

(***************************************************************************)
(* last_touched.                                                           *)
(***************************************************************************)
\* The modification times build_tree observes below a directory.
RECURSIVE Observed(_)
Observed(node) ==
    IF node.err \in ScandirErrors THEN {}
    ELSE UNION {LET e == node.sub[i] IN
                IF e.err = "is_dir" THEN {}
                ELSE IF e.kind = "dir" THEN Observed(e)
                ELSE IF e.err = "stat" THEN {}
                ELSE {e.mtime} : i \in 1..Len(node.sub)}

RECURSIVE ParentNotOlder(_)
ParentNotOlder(d) ==
    \A i \in 1..Len(d.subdirectories) :
      /\ d.last_touched >= d.subdirectories[i].last_touched
      /\ ParentNotOlder(d.subdirectories[i])

\* A parent's last_touched is at least that of each child, retained or not.
ParentsNotOlder ==
    /\ ~tree.raised => ParentNotOlder(tree.directory)
    /\ \A ip \in DirPaths(fs) : \A i \in 1..Len(NodeAt(fs, ip).sub) :
         (/\ ~NodeResult(ip).raised
          /\ NodeAt(fs, ip).err \notin ScandirErrors
          /\ NodeAt(fs, ip).sub[i].kind = "dir"
          /\ NodeAt(fs, ip).sub[i].err # "is_dir")
         => NodeResult(ip).directory.last_touched
              >= NodeResult(ip \o <<i>>).directory.last_touched

\* C10: every node's last_touched is the maximum modification time observed
\* below it, and 0 if none was observed; a parent's is at least its
\* children's.
C10_LastTouched ==
    phase # "setup" =>
      /\ \A ip \in DirPaths(fs) :
           ~NodeResult(ip).raised =>
             NodeResult(ip).directory.last_touched =
               IF Observed(NodeAt(fs, ip)) = {} THEN 0
               ELSE SetMax(Observed(NodeAt(fs, ip)))
      /\ ParentsNotOlder

\* What the code does: the maximum of 0 and the observed times.
C10_LastTouchedFromZero ==
    phase # "setup" =>
      /\ \A ip \in DirPaths(fs) :
           ~NodeResult(ip).raised =>
             NodeResult(ip).directory.last_touched =
               SetMax({0} \cup Observed(NodeAt(fs, ip)))
      /\ ParentsNotOlder

(***************************************************************************)
(* Merging and parallel dispatch.                                          *)
(***************************************************************************)
Range(seq) == {seq[i] : i \in 1..Len(seq)}

Dispatched == phase \in {"parallel", "collected", "merged"}

\* C3: when every unit is folded in, the parallel build's root has the
\* path, level and counters of the sequential build's root and the same
\* retained subtrees, whatever the order the units completed in; only the
\* order of the children may differ.
C3_ParallelEqualsSequential ==
    phase \in {"collected", "merged"} =>
      /\ par_root.path = tree.directory.path
      /\ par_root.level = tree.directory.level
      /\ Counters(par_root) = Counters(tree.directory)
      /\ Len(par_root.subdirectories) = Len(tree.directory.subdirectories)
      /\ Range(par_root.subdirectories) = Range(tree.directory.subdirectories)

\* Two units with files, completed against the enumeration order and kept.
C3_Witness ==
    /\ phase = "collected"
    /\ Len(folded) = 2
    /\ folded[1].num_files > 0
    /\ folded[2].num_files > 0
    /\ folded[1].last_touched > folded[2].last_touched
    /\ par_root.subdirectories = folded
    /\ par_root.subdirectories # tree.directory.subdirectories

\* The tree with every directory enumerated in the opposite order.
RECURSIVE Reversed(_)
Reversed(node) ==
    [node EXCEPT !.sub = [i \in 1..Len(node.sub) |->
                            Reversed(node.sub[Len(node.sub) + 1 - i])]]

\* The counters of every node of a summary, by path.
RECURSIVE NodeCounters(_)
NodeCounters(d) ==
    {<<d.path, d.level, Counters(d)>>} \cup
    UNION {NodeCounters(d.subdirectories[i]) :
             i \in 1..Len(d.subdirectories)}

UnitTrees ==
    {unit_build(Units(fs)[i], target_level, check_mimetype) :
       i \in 1..Len(Units(fs))}

\* C4: folding two subtrees into a base gives the same counters (and the
\* same children, in another order) in either order, and the counters of
\* every node build_tree retains do not depend on the order in which the
\* directories' entries are enumerated.
C4_OrderIndependence ==
    /\ phase # "setup" =>
         /\ ~tree.raised
         /\ NodeCounters(build_tree(Reversed(fs), ROOT, ROOT, target_level, 0,
                                    check_mimetype).directory)
              = NodeCounters(tree.directory)
    /\ Dispatched =>
         \A base \in {par_root, into_before, tree.directory} :
           \A A \in UnitTrees, B \in UnitTrees :
             LET ab == add_subtree(add_subtree(base, A), B)
                 ba == add_subtree(add_subtree(base, B), A)
             IN /\ Counters(ab) = Counters(ba)
                /\ Range(ab.subdirectories) = Range(ba.subdirectories)

\* Two different subtrees and a base that is not zero, on a tree whose
\* enumeration order matters to the list of children.
C4_Witness ==
    /\ Dispatched
    /\ tree.directory.last_touched > 0
    /\ \E A \in UnitTrees, B \in UnitTrees :
         /\ A.last_touched > B.last_touched
         /\ B.last_touched > 0
         /\ A.size_in_bytes # B.size_in_bytes
         /\ add_subtree(add_subtree(tree.directory, A), B).subdirectories
              # add_subtree(add_subtree(tree.directory, B), A).subdirectories
    /\ Reversed(fs) # fs

RECURSIVE SumOf(_, _)
SumOf(trees, counter) ==
    IF trees = <<>> THEN 0
    ELSE Head(trees)[counter] + SumOf(Tail(trees), counter)

SummedCounters ==
    {"size_in_bytes", "size_in_bytes_text", "size_in_bytes_gzip", "num_files"}

\* C5: a fold of from into into adds from's size, classified sizes and file
\* count to into's, makes into's last_touched the larger of the two, and
\* appends from, unchanged, to into's subdirectories; merge_trees does so
\* for each tree in turn, from a zero-valued node.
C5_MergeResult ==
    /\ (Dispatched /\ folded # <<>> /\ into_before.level < target_level) =>
         LET from == folded[Len(folded)] IN
         /\ \A c \in SummedCounters : par_root[c] = into_before[c] + from[c]
         /\ par_root.last_touched
              = SetMax({into_before.last_touched, from.last_touched})
         /\ par_root.subdirectories = Append(into_before.subdirectories, from)
         /\ par_root.path = into_before.path
         /\ par_root.level = into_before.level
    /\ phase = "merged" =>
         /\ \A c \in SummedCounters : merged[c] = SumOf(folded, c)
         /\ merged.last_touched
              = SetMax({0} \cup {folded[i].last_touched : i \in 1..Len(folded)})
         /\ merged.subdirectories = folded
         /\ merged.path = <<".">>
         /\ merged.level = 0

\* A unit with a file folded into a root that has a newer file of its own,
\* and two units merged.
C5_Witness ==
    /\ phase = "parallel"
    /\ target_level > 0
    /\ folded # <<>>
    /\ into_before.num_files = 1
    /\ folded[1].num_files = 1
    /\ into_before.last_touched > folded[1].last_touched
    /\ folded[1].last_touched > 0
    /\ par_root.num_files = 2
    /\ check_mimetype

(***************************************************************************)
(* Serialisation.                                                          *)
(***************************************************************************)
\* C8: what from_dict makes of a built tree's to_dict is that tree, field
\* for field and subdirectory for subdirectory, and its to_dict is the
\* snapshot again.
C8_RoundTrip ==
    (phase = "loaded" /\ damage = <<>>) =>
      /\ loaded.error = "none"
      /\ loaded.dts = tree.directory
      /\ to_dict(loaded.dts) = data
      /\ data = to_dict(tree.directory)

\* A classified tree with a retained subdirectory, loaded back.
C8_Witness ==
    /\ phase = "loaded"
    /\ damage = <<>>
    /\ check_mimetype
    /\ loaded.dts.subdirectories # <<>>
    /\ loaded.dts.subdirectories[1].path # <<".">>
    /\ loaded.dts.size_in_bytes_gzip > 0
    /\ loaded.dts.size_in_bytes_text > 0
    /\ loaded.dts.last_touched > 0

DamagedFields(kind) ==
    {damage[i].field : i \in {j \in 1..Len(damage) : damage[j].kind = kind}}

\* C9 (as amended): a snapshot with a required key missing, at any depth,
\* makes from_dict raise a KeyError naming a missing key and return no
\* summary; the values of the keys present are not validated.
C9_MissingField ==
    phase = "loaded" =>
      /\ DamagedFields("missing") # {}
           => /\ loaded.error = "KeyError"
              /\ loaded.field \in DamagedFields("missing")
      /\ DamagedFields("missing") = {}
           => /\ loaded.error = "none"
              /\ to_dict(loaded.dts) = data

\* C9 as first stated: a missing or an invalid field makes the load fail
\* with an error naming it.
C9_MissingOrInvalid ==
    (phase = "loaded" /\ damage # <<>>) =>
      /\ loaded.error # "none"
      /\ loaded.field \in DamagedFields("missing") \cup DamagedFields("invalid")

\* A count missing one level down.
C9_Witness ==
    /\ phase = "loaded"
    /\ damage # <<>>
    /\ damage[1].kind = "missing"
    /\ damage[1].field = "num_files"
    /\ Len(damage[1].at) = 1
    /\ loaded.error = "KeyError"
    /\ loaded.field = "num_files"

(***************************************************************************)
(* Symbolic links and termination.                                         *)
(***************************************************************************)
NoDuplicates(seq) == \A i, j \in 1..Len(seq) : seq[i] = seq[j] => i = j

IsPrefix(p, q) == Len(p) <= Len(q) /\ SubSeq(q, 1, Len(p)) = p

\* The step-by-step build returns what the recursive definition gives.
WalkIsBuildTree ==
    phase = "walked" =>
      tree = build_tree(fs, ROOT, ROOT, target_level, 0, check_mimetype)

\* No call of build_tree was made on a symbolic link.
NoLinkTraversed ==
    \A i \in 1..Len(calls) : NodeAt(fs, calls[i].entry).kind = "dir"

\* No directory was listed by two calls of build_tree.
VisitedAtMostOnce == NoDuplicates([i \in 1..Len(calls) |-> calls[i].dir])

\* The totals of every activation are those of distinct entries below its
\* directory, each added once.
CountedOnce ==
    \A n \in 1..Len(stack) :
      LET f == stack[n] IN
      /\ NoDuplicates(f.counted)
      /\ \A i \in 1..Len(f.counted) : IsPrefix(f.dir, f.counted[i])
      /\ f.directory.num_files = Len(f.counted)
      /\ f.directory.size_in_bytes = SumSizes(fs, Range(f.counted))

\* The recursion stays within the tree of real directories.
WithinTree == Len(stack) <= CountKind(fs, TRUE)

\* C11: on every tree, symbolic links to ancestors and cycles of links
\* included, build_tree returns; it never recurses into a symbolic link,
\* lists every directory at most once, and adds no entry's size twice to
\* any summary's totals.
C11_Termination ==
    /\ [](NoLinkTraversed /\ VisitedAtMostOnce /\ CountedOnce /\ WithinTree)
    /\ [](phase = "walked" => ~tree.raised)
    /\ <>(phase = "walked")

\* A finished audit of a tree where a link in a subdirectory points to the
\* audit root, which holds a regular file beside that subdirectory.
C11_Witness ==
    /\ phase = "walked"
    /\ ~tree.raised
    /\ \E l \in links :
         /\ Len(l[1]) = 2
         /\ l[2] = <<>>
    /\ \E i \in 1..Len(fs.sub) : fs.sub[i].kind = "file"
    /\ Len(calls) = 2
    /\ tree.directory.num_files = 2
====
